---- MODULE Spec2Model ----
(***************************************************************************)
(* Zero-dimensional energy balance model of src/src/App.jsx                *)
(* (EnergyBalanceExercise) and of its reduced variant src/unnamed/part_000.*)
(*                                                                         *)
(* JavaScript numbers are modelled as decimal fixed-point integers:        *)
(*   iceFrac, landFrac, cloudAlbedoDelta, nonIceFrac   1e-3 (slider step)  *)
(*   oceanFrac, landOnlyFrac                           1e-6                *)
(*   ALBEDO endpoints                                  1e-2                *)
(*   albedo_surface, alpha                             1e-8                *)
(*   S                                                 W/m^2 (step 1)      *)
(*   co2                                               ppm   (step 1)      *)
(*   otherForcing                                      1e-2 W/m^2 (step)   *)
(*   absorbed, Fco2, Fnet, rhs, F0, sigmaT4            1e-6 W/m^2          *)
(*   temperatures                                      1e-3 K              *)
(* Sums and the products of the albedo mix are exact at these scales; the  *)
(* products with S and SIGMA, Math.log and Math.pow round to the unit of   *)
(* their result, as the floating-point operations round to theirs.         *)
(***************************************************************************)
EXTENDS Integers, FiniteSets, Sequences

VARIABLES S, co2, otherForcing, iceFrac, cloudAlbedoDelta, landFrac,
          derived, memoDeps, lastOp

vars == <<S, co2, otherForcing, iceFrac, cloudAlbedoDelta, landFrac,
          derived, memoDeps, lastOp>>

(* ------------------------------ arithmetic ----------------------------- *)

MathMax(a, b) == IF a >= b THEN a ELSE b

MathMin(a, b) == IF a <= b THEN a ELSE b

\* d * 10^e, for a base-10^4 digit d.
Scale(d, e) == IF d = 0 THEN 0 ELSE d * 10 ^ e

\* The number with base-10^4 digits d4 d3 d2 d1 d0, divided by 10^n (floor).
Shifted(d0, d1, d2, d3, d4, n) ==
    LET q == n \div 4
        r == n % 4
        D(k) == CASE k = 0 -> d0 [] k = 1 -> d1 [] k = 2 -> d2
                  [] k = 3 -> d3 [] k = 4 -> d4 [] OTHER -> 0
    IN  (D(q) \div (10 ^ r)) + Scale(D(q + 1), 4 - r) + Scale(D(q + 2), 8 - r)
        + Scale(D(q + 3), 12 - r) + Scale(D(q + 4), 16 - r)

\* The column sums p0..p4 of a long multiplication, carried into digits.
Carried(p0, p1, p2, p3, p4, n) ==
    LET c1 == p1 + p0 \div 10000
        c2 == p2 + c1 \div 10000
        c3 == p3 + c2 \div 10000
    IN  Shifted(p0 % 10000, c1 % 10000, c2 % 10000, c3 % 10000,
                p4 + c3 \div 10000, n)

LimbProduct(a0, a1, a2, b0, b1, b2, n) ==
    Carried(a0 * b0, a0 * b1 + a1 * b0, a0 * b2 + a1 * b1 + a2 * b0,
            a1 * b2 + a2 * b1, a2 * b2, n)

\* floor(a * b / 10^n) for a, b >= 0, computed on base-10^4 limbs so that no
\* intermediate product exceeds the 32-bit integers of the checker.
MulShift(a, b, n) ==
    LimbProduct(a % 10000, (a \div 10000) % 10000, a \div 100000000,
                b % 10000, (b \div 10000) % 10000, b \div 100000000, n)

\* floor(a * 10^9 / b) for 0 <= a < b < 2 * 10^6, by long division.
DivScale(a, b) ==
    LET r1 == (a * 1000) % b
        r2 == (r1 * 1000) % b
    IN  ((a * 1000) \div b) * 1000000 + ((r1 * 1000) \div b) * 1000
        + (r2 * 1000) \div b

(* ------------------------------ constants ------------------------------ *)

\* SIGMA = 5.670374419e-8 W m^-2 K^-4, as the digit groups 5670 | 3744 | 19.
SIGMA == [d1 |-> 5670, d2 |-> 3744, d3 |-> 19]

BASE == [S |-> 1361, albedo |-> 30000000, T_obs |-> 288000, C0 |-> 280, C_now |-> 420]

ALBEDO == [ocean |-> 6, land |-> 25, ice |-> 60]

\* x * SIGMA for x in units of 10 K^4, result in 1e-6 W/m^2.
TimesSigma(x) ==
    MulShift(x, SIGMA.d1, 4) + MulShift(x, SIGMA.d2, 8) + MulShift(x, SIGMA.d3, 10)

\* x * x / 10^n.
SquareShift(x, n) == MulShift(x, x, n)

\* SIGMA * Math.pow(T, 4) for T in 1e-3 K, result in 1e-6 W/m^2.
SigmaPow4(t) == TimesSigma(SquareShift(SquareShift(t, 3), 7))

\* Upper end of the temperatures Math.pow(x / SIGMA, 0.25) is searched in (1e-3 K).
TSearchMax == 380 * 1000

RECURSIVE Bisect(_, _, _)
\* The greatest t in lo..hi with SigmaPow4(t) <= v (lo when there is none).
Bisect(lo, hi, v) ==
    IF lo >= hi THEN lo
    ELSE LET mid == (lo + hi + 1) \div 2
         IN  IF SigmaPow4(mid) <= v THEN Bisect(mid, hi, v)
                                    ELSE Bisect(lo, mid - 1, v)

\* Of lo and lo + 1, the temperature whose SIGMA * T^4 is nearer to v.
Nearest(lo, v) ==
    IF v - SigmaPow4(lo) > SigmaPow4(lo + 1) - v THEN lo + 1 ELSE lo

\* Math.pow(v / SIGMA, 0.25) for v >= 0 in 1e-6 W/m^2: the temperature in
\* 1e-3 K whose SIGMA * T^4 is nearest to v.
PowQuarterOverSigma(v) == Nearest(Bisect(0, TSearchMax, v), v)

RECURSIVE AtanhSeries(_, _, _)
\* z + z^3/3 + z^5/5 + ... at scale 1e9; pw is the current odd power of z.
AtanhSeries(pw, z2, n) ==
    IF pw = 0 THEN 0
    ELSE pw \div n + AtanhSeries(MulShift(pw, z2, 9), z2, n + 2)

\* atanh(z) at scale 1e9, 0 <= z < 1.
Atanh(z) == AtanhSeries(z, SquareShift(z, 9), 1)

\* Math.log(C / C0) at scale 1e9 for C, C0 > 0:
\* ln(C / C0) = 2 * atanh((C - C0) / (C + C0)).
MathLogRatio(C, C0) ==
    IF C >= C0 THEN 2 * Atanh(DivScale(C - C0, C + C0))
               ELSE -(2 * Atanh(DivScale(C0 - C, C + C0)))

\* ((1 - alpha) * S) / 4 in 1e-6 W/m^2.
AbsorbedShortwave(alpha, s) ==
    ((100000000 - alpha) \div 400) * s + (((100000000 - alpha) % 400) * s) \div 400

\* The calibration with the baseline albedo left out of the absorbed flux.
baselineF0NoAlbedo == SigmaPow4(BASE.T_obs) - AbsorbedShortwave(0, BASE.S)

baselineGreenhouseF0 ==
    LET absorbed == AbsorbedShortwave(BASE.albedo, BASE.S)
        sigmaT4 == SigmaPow4(BASE.T_obs)
    IN  sigmaT4 - absorbed

F0 == baselineGreenhouseF0

\* 5.35 * l, for l at scale 1e9, in 1e-6 W/m^2.
Times535(l) == IF l >= 0 THEN MulShift(l, 535, 5) ELSE -MulShift(-l, 535, 5)

\* The forcing with the ratio inverted.
forcingCO2Inverted(C, C0) == Times535(MathLogRatio(C0, C))

forcingCO2(C, C0) == Times535(MathLogRatio(C, C0))

\* clamp without its upper bound.
clampNoUpper(x, min, max) == MathMax(min, x)

clamp(x, min, max) == MathMax(min, MathMin(max, x))

toC(K) == K - 273150

(* ------------------------- the useMemo callback ------------------------ *)

\* Mix of the surface types and the cloud tweak.
SurfaceMix(ice, cloud, oceanFrac, landOnlyFrac) ==
    LET albedo_surface == oceanFrac * ALBEDO.ocean
                          + landOnlyFrac * ALBEDO.land
                          + (ice * 1000) * ALBEDO.ice
    IN  [oceanFrac |-> oceanFrac, landOnlyFrac |-> landOnlyFrac,
         alpha |-> clamp(albedo_surface + cloud * 100000, 0, 80000000)]

\* The mix with the land fraction not scaled by the ice-free fraction.
NonIceMixLandUnscaled(ice, land, cloud, nonIceFrac) ==
    SurfaceMix(ice, cloud, clamp(1000 - land, 0, 1000) * nonIceFrac, land * 1000)

NonIceMix(ice, land, cloud, nonIceFrac) ==
    SurfaceMix(ice, cloud, clamp(1000 - land, 0, 1000) * nonIceFrac, land * nonIceFrac)

composeAlbedo(ice, land, cloud) ==
    NonIceMix(ice, land, cloud, clamp(1000 - ice, 0, 1000))

\* Radiative forcings: baseline greenhouse + user tweaks.
Forcings(other, Fco2) == [Fco2 |-> Fco2, Fnet |-> F0 + other * 10000 + Fco2]

netForcing(c, other) == Forcings(other, forcingCO2(c, BASE.C0))

\* The no-greenhouse temperature taken from the forced right-hand side.
EquilibriumTeFromRhs(absorbed, rhs) ==
    [absorbed |-> absorbed, rhs |-> rhs,
     T |-> PowQuarterOverSigma(rhs), Te_noGHG |-> PowQuarterOverSigma(rhs)]

\* Equilibrium energy balance (1 - alpha) S/4 + Fnet = sigma T^4; 1e-3 W/m^2
\* is 1000 units of rhs.
Equilibrium(absorbed, rhs) ==
    [absorbed |-> absorbed, rhs |-> rhs,
     T |-> PowQuarterOverSigma(rhs), Te_noGHG |-> PowQuarterOverSigma(absorbed)]

\* The right-hand side without its floor.
EnergyBalanceNoFloor(absorbed, Fnet) == Equilibrium(absorbed, absorbed + Fnet)

EnergyBalance(absorbed, Fnet) == Equilibrium(absorbed, MathMax(1000, absorbed + Fnet))

solveEquilibrium(s, alpha, Fnet) == EnergyBalance(AbsorbedShortwave(alpha, s), Fnet)

\* The object the callback returns.
Returned(mix, f, eq) ==
        [alpha |-> mix.alpha,
         absorbed |-> eq.absorbed,
         Fco2 |-> f.Fco2,
         Fnet |-> f.Fnet,
         T |-> eq.T,
         T_C |-> toC(eq.T),
         Te_noGHG |-> eq.Te_noGHG,
         Te_noGHG_C |-> toC(eq.Te_noGHG),
         dT_from_baseline |-> eq.T - BASE.T_obs,
         dT_from_baseline_C |-> toC(eq.T) - toC(BASE.T_obs),
         oceanFrac |-> mix.oceanFrac,
         landOnlyFrac |-> mix.landOnlyFrac]

Solved(s, mix, f) == Returned(mix, f, solveEquilibrium(s, mix.alpha, f.Fnet))

\* The useMemo callback.
ComputeDerived(s, c, other, ice, cloud, land) ==
    Solved(s, composeAlbedo(ice, land, cloud), netForcing(c, other))

\* The dependency array with landFrac forgotten.
UseMemoDepsNoLand(s, c, other, ice, cloud, land) == <<s, c, other, ice, cloud>>

\* The dependency array of useMemo.
UseMemoDeps(s, c, other, ice, cloud, land) == <<s, c, other, ice, cloud, land>>

(* ------------------------------- sliders ------------------------------- *)

\* Number of equal steps each slider's range is cut into.
GridSteps == 1

Grid(min, max) == {min + (k * (max - min)) \div GridSteps : k \in 0..GridSteps}

SValues == Grid(1200, 1500) \cup {BASE.S}

CO2Values == Grid(150, 1200) \cup {BASE.C0, BASE.C_now, 1199}

OtherForcingValues == Grid(-500, 500) \cup {0}

IceFracValues == Grid(0, 600) \cup {120, 400}

CloudAlbedoDeltaValues == Grid(-100, 100) \cup {0, 24}

LandFracValues == Grid(0, 500) \cup {290}

RECURSIVE Ascending(_)
\* The elements of a finite set of integers in ascending order.
Ascending(set) ==
    IF set = {} THEN <<>>
    ELSE LET m == CHOOSE x \in set : \A y \in set : x <= y
         IN  <<m>> \o Ascending(set \ {m})

\* The positions of the six sliders, S first.
Positions ==
    <<Ascending(SValues), Ascending(CO2Values), Ascending(OtherForcingValues),
      Ascending(IceFracValues), Ascending(CloudAlbedoDeltaValues),
      Ascending(LandFracValues)>>

RECURSIVE Stride(_)
\* The number of combinations of the sliders after the k-th.
Stride(k) == IF k = 6 THEN 1 ELSE Len(Positions[k + 1]) * Stride(k + 1)

PositionOf(k, v) == CHOOSE p \in 1..Len(Positions[k]) : Positions[k][p] = v

\* The number of a combination of slider values, from 1.
InputIndex(in) ==
    1 + (PositionOf(1, in[1]) - 1) * Stride(1) + (PositionOf(2, in[2]) - 1) * Stride(2)
      + (PositionOf(3, in[3]) - 1) * Stride(3) + (PositionOf(4, in[4]) - 1) * Stride(4)
      + (PositionOf(5, in[5]) - 1) * Stride(5) + (PositionOf(6, in[6]) - 1) * Stride(6)

\* The combination of slider values with number n.
InputAt(n) ==
    [k \in 1..6 |-> Positions[k][1 + (((n - 1) \div Stride(k)) % Len(Positions[k]))]]

\* The callback's result on every combination of slider values, evaluated once.
derivedAt ==
    [n \in 1..Stride(0) |-> ComputeDerived(InputAt(n)[1], InputAt(n)[2], InputAt(n)[3],
                                            InputAt(n)[4], InputAt(n)[5], InputAt(n)[6])]

(* ---------------------------- the component ---------------------------- *)

\* A render: useMemo runs the callback when a dependency changed.  lastOp
\* records the handler that ran last (for resetAll, whether the inputs it
\* found were the initial ones); the component keeps no such record.
Render(s, c, other, ice, cloud, land) ==
    LET deps == UseMemoDeps(s, c, other, ice, cloud, land)
    IN  /\ derived' = IF deps = memoDeps THEN derived
                      ELSE derivedAt[InputIndex(<<s, c, other, ice, cloud, land>>)]
        /\ memoDeps' = deps

\* The arguments of the six useState calls, S first.
InitialInputs == <<BASE.S, BASE.C_now, 0, 120, 0, 290>>

\* The callback on a combination of the six inputs.
DerivedOf(in) == ComputeDerived(in[1], in[2], in[3], in[4], in[5], in[6])

inputs == <<S, co2, otherForcing, iceFrac, cloudAlbedoDelta, landFrac>>

\* The first render.
Init ==
    /\ S = InitialInputs[1]
    /\ co2 = InitialInputs[2]
    /\ otherForcing = InitialInputs[3]
    /\ iceFrac = InitialInputs[4]
    /\ cloudAlbedoDelta = InitialInputs[5]
    /\ landFrac = InitialInputs[6]
    /\ derived = DerivedOf(InitialInputs)
    /\ memoDeps = UseMemoDeps(BASE.S, BASE.C_now, 0, 120, 0, 290)
    /\ lastOp = "init"

setS(v) ==
    /\ S' = v
    /\ UNCHANGED <<co2, otherForcing, iceFrac, cloudAlbedoDelta, landFrac>>
    /\ Render(v, co2, otherForcing, iceFrac, cloudAlbedoDelta, landFrac)
    /\ lastOp' = "set"

setCO2(v) ==
    /\ co2' = v
    /\ UNCHANGED <<S, otherForcing, iceFrac, cloudAlbedoDelta, landFrac>>
    /\ Render(S, v, otherForcing, iceFrac, cloudAlbedoDelta, landFrac)
    /\ lastOp' = "set"

setOtherForcing(v) ==
    /\ otherForcing' = v
    /\ UNCHANGED <<S, co2, iceFrac, cloudAlbedoDelta, landFrac>>
    /\ Render(S, co2, v, iceFrac, cloudAlbedoDelta, landFrac)
    /\ lastOp' = "set"

setIceFrac(v) ==
    /\ iceFrac' = v
    /\ UNCHANGED <<S, co2, otherForcing, cloudAlbedoDelta, landFrac>>
    /\ Render(S, co2, otherForcing, v, cloudAlbedoDelta, landFrac)
    /\ lastOp' = "set"

setCloudAlbedoDelta(v) ==
    /\ cloudAlbedoDelta' = v
    /\ UNCHANGED <<S, co2, otherForcing, iceFrac, landFrac>>
    /\ Render(S, co2, otherForcing, iceFrac, v, landFrac)
    /\ lastOp' = "set"

setLandFrac(v) ==
    /\ landFrac' = v
    /\ UNCHANGED <<S, co2, otherForcing, iceFrac, cloudAlbedoDelta>>
    /\ Render(S, co2, otherForcing, iceFrac, cloudAlbedoDelta, v)
    /\ lastOp' = "set"

\* resetAll restoring the preindustrial concentration instead of C_now.
resetAllToC0 ==
    /\ S' = BASE.S
    /\ co2' = BASE.C0
    /\ otherForcing' = 0
    /\ iceFrac' = 120
    /\ cloudAlbedoDelta' = 0
    /\ landFrac' = 290
    /\ Render(BASE.S, BASE.C0, 0, 120, 0, 290)
    /\ lastOp' = IF inputs = InitialInputs THEN "reset of initial values" ELSE "reset"

resetAll ==
    /\ S' = BASE.S
    /\ co2' = BASE.C_now
    /\ otherForcing' = 0
    /\ iceFrac' = 120
    /\ cloudAlbedoDelta' = 0
    /\ landFrac' = 290
    /\ Render(BASE.S, BASE.C_now, 0, 120, 0, 290)
    /\ lastOp' = IF inputs = InitialInputs THEN "reset of initial values" ELSE "reset"

Next ==
    \/ \E v \in SValues : setS(v)
    \/ \E v \in CO2Values : setCO2(v)
    \/ \E v \in OtherForcingValues : setOtherForcing(v)
    \/ \E v \in IceFracValues : setIceFrac(v)
    \/ \E v \in CloudAlbedoDeltaValues : setCloudAlbedoDelta(v)
    \/ \E v \in LandFracValues : setLandFrac(v)
    \/ resetAll

Spec == Init /\ [][Next]_vars

(* ------------- the callback on arguments outside the sliders ----------- *)

FnSValues == {BASE.S}

FnCO2Values == {BASE.C0, BASE.C_now}

FnOtherForcingValues == OtherForcingValues \cup {-120000}

FnIceFracValues == IceFracValues \cup {-500, 1000, 2000}

FnLandFracValues == LandFracValues \cup {-500, 1000, 1500}

FnCloudAlbedoDeltaValues == CloudAlbedoDeltaValues \cup {-1000, 1000}

\* The component mounted on arbitrary values, before its first render.
InitFn ==
    /\ S \in FnSValues
    /\ co2 \in FnCO2Values
    /\ otherForcing \in FnOtherForcingValues
    /\ iceFrac \in FnIceFracValues
    /\ cloudAlbedoDelta \in FnCloudAlbedoDeltaValues
    /\ landFrac \in FnLandFracValues
    /\ derived = [pending |-> TRUE]
    /\ memoDeps = <<>>
    /\ lastOp = "args"

\* The first render: useMemo runs the callback.
Evaluate ==
    /\ lastOp = "args"
    /\ derived' = DerivedOf(inputs)
    /\ memoDeps' = UseMemoDeps(S, co2, otherForcing, iceFrac, cloudAlbedoDelta, landFrac)
    /\ lastOp' = "evaluated"
    /\ UNCHANGED inputs

NextFn == Evaluate

SpecFn == InitFn /\ [][NextFn]_vars

(* -------------------------------- claims ------------------------------- *)

\* C1: the composed alpha equals the alpha composed from the ice and land
\* fractions clamped to [0,1], with the same cloud delta.
C1_AlbedoOfClampedFractions ==
    lastOp = "evaluated" =>
        derived.alpha = composeAlbedo(clamp(iceFrac, 0, 1000), clamp(landFrac, 0, 1000),
                                      cloudAlbedoDelta).alpha

\* C2: whatever the ice fraction, land fraction and cloud delta, inside or
\* outside the slider ranges, alpha lies in [0.0, 0.8].
C2_AlphaInRange ==
    lastOp = "evaluated" => (0 <= derived.alpha /\ derived.alpha <= 80000000)

\* An ice fraction above 1 whose mix is cut down to 0.8.
C2_Witness ==
    lastOp = "evaluated" /\ iceFrac > 1000 /\ derived.alpha = 80000000

\* C3: at S = S0, alpha = alpha0 and net forcing F0 alone (CO2 at C0, no other
\* forcing) the right-hand side absorbed + F0 is sigma * T_obs^4 and the
\* equilibrium temperature is T_obs.
C3_CalibrationIdentity ==
    (S = BASE.S /\ co2 = BASE.C0 /\ otherForcing = 0 /\ derived.alpha = BASE.albedo) =>
        /\ derived.Fnet = F0
        /\ derived.absorbed + derived.Fnet = SigmaPow4(BASE.T_obs)
        /\ derived.T = BASE.T_obs

\* The sliders set so that the mix gives alpha0 at S0, C0 and no other forcing.
C3_Witness ==
    /\ lastOp = "set"
    /\ S = BASE.S /\ co2 = BASE.C0 /\ otherForcing = 0
    /\ derived.alpha = BASE.albedo
    /\ derived.T = BASE.T_obs

\* C4: however negative the net forcing, the temperature is the fourth root of
\* max(absorbed + Fnet, 1e-3), which is at least 1e-3, and is strictly positive.
C4_EquilibriumFloor ==
    lastOp = "evaluated" =>
        /\ MathMax(1000, derived.absorbed + derived.Fnet) >= 1000
        /\ derived.T = PowQuarterOverSigma(MathMax(1000, derived.absorbed + derived.Fnet))
        /\ derived.T > 0

\* A forcing so negative that absorbed + Fnet is below zero.
C4_Witness ==
    lastOp = "evaluated" /\ derived.absorbed + derived.Fnet < 0 /\ derived.T > 0

\* C5: a step that leaves S, iceFrac, landFrac and cloudAlbedoDelta alone,
\* whatever it does to co2 and otherForcing, leaves absorbed and Te_noGHG alone.
C5_ForcingIndependence ==
    [][(S' = S /\ iceFrac' = iceFrac /\ landFrac' = landFrac
            /\ cloudAlbedoDelta' = cloudAlbedoDelta) =>
        (derived'.absorbed = derived.absorbed /\ derived'.Te_noGHG = derived.Te_noGHG)]_vars

\* Both forcing inputs moved off their initial values, the others as at the start.
C5_Witness ==
    /\ lastOp = "set"
    /\ co2 # BASE.C_now /\ otherForcing # 0
    /\ S = BASE.S /\ iceFrac = 120 /\ landFrac = 290 /\ cloudAlbedoDelta = 0
    /\ derived.Fnet # DerivedOf(InitialInputs).Fnet
    /\ derived.Te_noGHG = DerivedOf(InitialInputs).Te_noGHG

\* C6: at the initial inputs, T is above T_obs by less than 1 K.
C6_DefaultNearBaseline ==
    inputs = InitialInputs =>
        (BASE.T_obs < derived.T /\ derived.T < BASE.T_obs + 1000)

\* C7: a step that raises the concentration raises the CO2 forcing.
C7_ForcingMonotone ==
    [][co2 < co2' => derived.Fco2 < derived'.Fco2]_vars

\* The concentration raised from its initial value, by one ppm at the top of the range.
C7_Witness ==
    /\ lastOp = "set"
    /\ co2 = 1200
    /\ derived.Fco2 > forcingCO2(1199, BASE.C0)
    /\ forcingCO2(1199, BASE.C0) > forcingCO2(BASE.C_now, BASE.C0)

\* C8: with iceFrac and landFrac both in [0,1], the ocean, land-only and ice
\* fractions sum to 1 and each lies in [0,1].
C8_AreaPartition ==
    (lastOp = "evaluated" /\ 0 <= iceFrac /\ iceFrac <= 1000
                          /\ 0 <= landFrac /\ landFrac <= 1000) =>
        /\ derived.oceanFrac + derived.landOnlyFrac + iceFrac * 1000 = 1000000
        /\ 0 <= derived.oceanFrac /\ derived.oceanFrac <= 1000000
        /\ 0 <= derived.landOnlyFrac /\ derived.landOnlyFrac <= 1000000

\* Ice and land both strictly inside (0,1): three non-empty parts.
C8_Witness ==
    /\ lastOp = "evaluated"
    /\ 0 < iceFrac /\ iceFrac < 1000 /\ 0 < landFrac /\ landFrac < 1000
    /\ derived.oceanFrac > 0 /\ derived.landOnlyFrac > 0

\* C9: after any sequence of changes, the memoised outputs are the callback's
\* outputs on the current inputs.
C9_NoStaleResults == derived = DerivedOf(inputs)

\* Every one of the six inputs moved off its initial value.
C9_Witness ==
    /\ lastOp = "set"
    /\ S # BASE.S /\ co2 # BASE.C_now /\ otherForcing # 0
    /\ iceFrac # 120 /\ cloudAlbedoDelta # 0 /\ landFrac # 290
    /\ derived # DerivedOf(InitialInputs)

\* C10: after resetAll, from whatever state, the six inputs are the initial
\* values and the outputs are those of the first render; every reset ends in
\* this one state, so a second resetAll changes nothing.
C10_ResetRestoresInitial ==
    lastOp \in {"reset", "reset of initial values"} =>
        /\ inputs = <<1361, 420, 0, 120, 0, 290>>
        /\ derived = DerivedOf(InitialInputs)
        /\ memoDeps = inputs

\* A reset has run on inputs that were not the initial ones.
C10_Witness ==
    /\ lastOp = "reset"
    /\ inputs = InitialInputs
    /\ derived.T = DerivedOf(InitialInputs).T

====
